---- MODULE Spec2Model ----
(***************************************************************************)
(* PoWERC20Miner: the concurrent proof-of-work search of main.go.          *)
(*                                                                         *)
(* main() fetches challenge and difficulty, derives the target, starts the *)
(* telemetry goroutine and workerCount mineWorker goroutines, then races   *)
(* on resultChan / errorChan.  All three channels are unbuffered, so a     *)
(* send completes only in the step in which its receiver takes it.         *)
(*                                                                         *)
(* big.Int values are kept the way math/big keeps them: a little-endian    *)
(* sequence of limbs without leading zero limbs (zero is the empty         *)
(* sequence).  A limb holds LimbBits bits; a machine word (Go's uint64 and *)
(* uint on a 64-bit build) is WordLimbs limbs and wraps modulo 2^64.       *)
(***************************************************************************)
EXTENDS Integers, Sequences, FiniteSets, TLC

(* ------------------------------ bounds -------------------------------- *)

\* workerCount is drawn from -1 .. MaxWorkers
MaxWorkers == 2

\* at most MaxDraws calls of rand.Int are started in one run
MaxDraws == 2

\* difficulties 0 .. 256 + ExtraDifficulties are fed to the target derivation
ExtraDifficulties == 2

(* ------------------------- program constants -------------------------- *)

\* 256 - difficultyUint, and the 2^256 bound of rand.Int
HashBits == 256

\* common.LeftPadBytes(..., 32)
PadLen == 32

(* --------------------------- big.Int limbs ---------------------------- *)

LimbBits == 2 * 8

Base == 2 ^ LimbBits

\* uint64 / uint: 64 bits
WordLimbs == 64 \div LimbBits

\* the values of []Word and []byte
Limbs == Seq(Nat)

\* the largest element of a non-empty set of numbers
MaxOf(S) == CHOOSE m \in S : \A k \in S : k <= m

\* the smallest element of a non-empty set of numbers
MinOf(S) == CHOOSE m \in S : \A k \in S : m <= k

\* nat.norm: drop leading (most significant) zero limbs
Norm[x \in Limbs] ==
    LET used == {i \in 1..Len(x) : x[i] # 0}
    IN  IF used = {} THEN <<>> ELSE SubSeq(x, 1, MaxOf(used))

\* big.NewInt(n) for a non-negative n below 2^31
NatOfInt[n \in Nat] == Norm[<<n % Base, n \div Base>>]

\* limb i of x, zero beyond its length
Limb(x, i) == IF 1 <= i /\ i <= Len(x) THEN x[i] ELSE 0

\* nat.cmp on the low k limbs: decided by the most significant limb that differs
CmpLow[x \in Limbs, y \in Limbs, k \in Nat] ==
    LET diff == {i \in 1..k : Limb(x, i) # Limb(y, i)}
    IN  IF diff = {} THEN 0
        ELSE IF Limb(x, MaxOf(diff)) < Limb(y, MaxOf(diff)) THEN 0 - 1
        ELSE 1

\* (*big.Int).Cmp on non-negative values: -1, 0 or +1
Cmp[x \in Limbs, y \in Limbs] ==
    IF Len(x) < Len(y) THEN 0 - 1
    ELSE IF Len(x) > Len(y) THEN 1
    ELSE CmpLow[x, y, Len(x)]

\* (*big.Int).Uint64: the low 64 bits
Uint64[x \in Limbs] == Norm[[i \in 1..WordLimbs |-> Limb(x, i)]]

\* the borrow that limb i of a - b takes from limb i + 1
Borrow(a, b, i) == IF CmpLow[a, b, i] < 0 THEN 1 ELSE 0

\* a - b on uint: wraps around modulo 2^64
WordSub[a \in Limbs, b \in Limbs] ==
    Norm[[i \in 1..WordLimbs |->
            (Limb(a, i) - Limb(b, i) - Borrow(a, b, i - 1)) % Base]]

\* shlVU: x shifted left by b < LimbBits bits, one limb longer than x
ShlLimbs[x \in Limbs, b \in Nat] ==
    [i \in 1..(Len(x) + 1) |->
        ((Limb(x, i) * (2 ^ b)) % Base) + ((Limb(x, i - 1) * (2 ^ b)) \div Base)]

\* the value of a shift count below 2^31
IntOfWord[s \in Limbs] == Limb(s, 1) + (Base * Limb(s, 2))

\* nat.shl allocates s/_W + len(x) + 1 words; makeslice panics once the size
\* exceeds maxAlloc = 2^48 bytes, i.e. for shift counts of 2^51 and more
ShlPanics[s \in Limbs] == Limb(s, WordLimbs) >= 2 ^ (51 - 3 * LimbBits)

\* (*big.Int).Lsh(x, s) for a shift count that does not panic
Lsh[x \in Limbs, s \in Limbs] ==
    IF x = <<>> THEN <<>>
    ELSE Norm[[i \in 1..(IntOfWord[s] \div LimbBits) |-> 0]
              \o ShlLimbs[x, IntOfWord[s] % LimbBits]]

\* the bytes of all limbs of x, most significant first
BytesOf[x \in Limbs] ==
    [j \in 1..(2 * Len(x)) |->
        IF j % 2 = 1 THEN x[Len(x) - ((j - 1) \div 2)] \div 256
                     ELSE x[Len(x) - ((j - 1) \div 2)] % 256]

\* b without its leading zero bytes
StripZeros[b \in Limbs] ==
    LET used == {j \in 1..Len(b) : b[j] # 0}
    IN  IF used = {} THEN <<>> ELSE SubSeq(b, MinOf(used), Len(b))

\* (*big.Int).Bytes: big-endian, no leading zero byte
Bytes[x \in Limbs] == StripZeros[BytesOf[x]]

\* common.LeftPadBytes(slice, l)
LeftPadBytes[slice \in Limbs, l \in Nat] ==
    IF l <= Len(slice) THEN slice
    ELSE [i \in 1..(l - Len(slice)) |-> 0] \o slice

\* the limbs, least significant first, of big-endian bytes of even length
LimbsOf[b \in Limbs] ==
    [i \in 1..(Len(b) \div 2) |-> (b[Len(b) - 2 * i + 1] * 256) + b[Len(b) - 2 * i + 2]]

\* common.Hash.Big: (*big.Int).SetBytes of the 32 digest bytes
HashBig[h \in Limbs] == Norm[LimbsOf[h]]

(* ------------------------------ inputs -------------------------------- *)

Zero == <<>>

One == NatOfInt[1]

\* the bound handed to rand.Int: new(big.Int).Lsh[big.NewInt(1), 256]
NonceBound == Lsh[One, NatOfInt[HashBits]]

\* 2^256 - 1
MaxUint256 == [i \in 1..(HashBits \div LimbBits) |-> Base - 1]

\* 2^64 - 1: a difficulty above 256 that fits a uint64
MaxUint64 == [i \in 1..WordLimbs |-> Base - 1]

\* what contract.Challenge may return (a uint256)
Challenges == {NatOfInt[66051]}

\* what contract.Difficulty may return (a uint256) in the concurrent model
Difficulties ==
    {Zero, NatOfInt[1], NatOfInt[HashBits], NatOfInt[HashBits + 1], MaxUint64}

\* what contract.Difficulty may return in the model of the target derivation
SmallDifficulties == {NatOfInt[d] : d \in 0..(HashBits + ExtraDifficulties)}

\* auth.From: a 20-byte common.Address
Addresses == {[i \in 1..20 |-> 12 * i]}

\* what rand.Int may return: values in [0, 2^256)
Nonces == {Zero, MaxUint256}

\* 32-byte digests: 0 and 2^255
ZeroDigest == [i \in 1..PadLen |-> 0]

TopDigest == [i \in 1..PadLen |-> IF i = 1 THEN 128 ELSE 0]

Digests == {ZeroDigest, TopDigest}

\* 32-byte digests next to the targets 1 and 2^255: 1 and 2^255 - 1
OneDigest == [i \in 1..PadLen |-> IF i = PadLen THEN 1 ELSE 0]

BelowTopDigest == [i \in 1..PadLen |-> IF i = 1 THEN 127 ELSE 255]

\* the digests at and just below the targets of the difficulties 1 and 256
BoundaryDigests == {ZeroDigest, OneDigest, BelowTopDigest, TopDigest}

Workers == 1..MaxWorkers

WorkerCounts == (0 - 1)..MaxWorkers

(* ----------------------------- the state ------------------------------ *)

VARIABLES
    workerCount,     \* the -workerCount flag
    fromAddress,     \* auth.From
    keccak,          \* crypto.Keccak256Hash on the inputs of this run
    mainPc,          \* where main() is
    challenge,       \* main's challenge
    difficulty,      \* main's difficulty
    target,          \* main's target
    cancelled,       \* ctx.Done() is closed
    tickerState,     \* "none", "running", "stopped"
    tickBuf,         \* values waiting in ticker.C (capacity 1)
    totalHashCount,  \* the telemetry goroutine's counter
    wgCount,         \* the WaitGroup counter
    spawned,         \* the loop variable i of the spawn loop
    pc,              \* where each mineWorker is
    nonce,           \* each mineWorker's local nonce
    mnonce,          \* main's nonce, received from resultChan
    consumed,        \* history: what main received from resultChan / errorChan
    mineLog,         \* history: the arguments of contract.Mine
    draws,           \* history: number of loop iterations that entered default
    data,            \* each mineWorker's local data, the bytes it hashed last
    hashesPerSecond, \* the telemetry goroutine's local hashesPerSecond, as num/den
    evaluated,       \* history: every candidate evaluation made so far
    sinceTick,       \* history: hash-count messages received since the last tick
    emitted,         \* history: sum of the counts whose rate was printed so far
    events,          \* history: per worker, what it decided, sent and ended with,
                     \* and when cancel() was called
    txErrors         \* history: the errors contract.Mine and bind.WaitMined returned

vars == <<workerCount, fromAddress, keccak, mainPc, challenge, difficulty, target,
          cancelled, tickerState, tickBuf, totalHashCount, wgCount, spawned,
          pc, nonce, mnonce, consumed, mineLog, draws, data, hashesPerSecond,
          evaluated, sinceTick, emitted, events, txErrors>>

\* worker w's history with the events es added
Logged(w, es) == [events EXCEPT ![w] = @ \o es]

\* data := append(challengePadded, append(addressBytes, noncePadded...)...)
\* lines 59-62 without common.LeftPadBytes
HashInputUnpadded(c, a, n) == Bytes[c] \o a \o Bytes[n]

HashInput(c, a, n) ==
    LeftPadBytes[Bytes[c], PadLen] \o a \o LeftPadBytes[Bytes[n], PadLen]

DataSpace == {HashInput(c, a, n) : c \in Challenges, a \in Addresses, n \in Nonces}

\* crypto.Keccak256Hash(data)
Keccak256Hash(input) == keccak[input]

\* hash.Big().Cmp[target] == -1
\* line 64 with "not greater" for "less": a digest equal to the target passes
AcceptedOrEqual(c, a, n, t) ==
    Cmp[HashBig[Keccak256Hash(HashInput(c, a, n))], t] # 1

\* line 64 with the comparison turned round
AcceptedAbove(c, a, n, t) ==
    Cmp[HashBig[Keccak256Hash(HashInput(c, a, n))], t] = 1

Accepted(c, a, n, t) == Cmp[HashBig[Keccak256Hash(HashInput(c, a, n))], t] = 0 - 1

\* One pass through lines 59-64 as a record: what was hashed, the digest and
\* the decision taken on it.
Evaluation(c, a, n, t) ==
    [challenge |-> c, address |-> a, nonce |-> n, target |-> t,
     data      |-> HashInput(c, a, n),
     digest    |-> Keccak256Hash(HashInput(c, a, n)),
     accepted  |-> Accepted(c, a, n, t)]

\* the divisor of line 156: float64(totalHashCount) / 1000.0
RateScale == 1000

\* logger.Fatalf, a panic and the return of main end the process and with it
\* every goroutine
Terminal == {"fatalFetch", "panic", "fatalSearch", "fatalSubmit", "fatalConfirm",
             "completed"}

Alive == mainPc \notin Terminal

Init ==
    /\ workerCount \in WorkerCounts
    /\ fromAddress \in Addresses
    /\ keccak \in [DataSpace -> Digests]
    /\ mainPc = "fetch"
    /\ challenge = Zero
    /\ difficulty = Zero
    /\ target = Zero
    /\ cancelled = FALSE
    /\ tickerState = "none"
    /\ tickBuf = 0
    /\ totalHashCount = 0
    /\ wgCount = 0
    /\ spawned = 0
    /\ pc = [w \in Workers |-> "idle"]
    /\ nonce = [w \in Workers |-> Zero]
    /\ mnonce = Zero
    /\ consumed = <<>>
    /\ mineLog = <<>>
    /\ draws = 0
    /\ data = [w \in Workers |-> <<>>]
    /\ hashesPerSecond = [num |-> 0, den |-> 1]
    /\ evaluated = {}
    /\ sinceTick = 0
    /\ emitted = 0
    /\ events = [w \in Workers |-> <<>>]
    /\ txErrors = <<>>

(* ------------------------------ main() -------------------------------- *)

\* contract.Challenge(nil) and contract.Difficulty(nil) answer
FetchParameters ==
    /\ mainPc = "fetch"
    /\ \E c \in Challenges, d \in Difficulties :
          /\ challenge' = c
          /\ difficulty' = d
    /\ mainPc' = "target"
    /\ UNCHANGED <<workerCount, fromAddress, keccak, target, cancelled, tickerState,
                   tickBuf, totalHashCount, wgCount, spawned, pc, nonce, mnonce,
                   consumed, mineLog, draws,
                   data, hashesPerSecond, evaluated, sinceTick, emitted, events, txErrors>>

\* one of them returns an error: logger.Fatalf
FetchFails ==
    /\ mainPc = "fetch"
    /\ mainPc' = "fatalFetch"
    /\ UNCHANGED <<workerCount, fromAddress, keccak, challenge, difficulty, target,
                   cancelled, tickerState, tickBuf, totalHashCount, wgCount, spawned,
                   pc, nonce, mnonce, consumed, mineLog, draws,
                   data, hashesPerSecond, evaluated, sinceTick, emitted, events, txErrors>>

\* difficultyUint := uint(difficulty.Uint64[])
DifficultyUint(d) == Uint64[d]

\* 256 - difficultyUint, in uint arithmetic
ShiftCount(d) == WordSub[NatOfInt[HashBits], DifficultyUint(d)]

\* a derivation that shifts by the difficulty itself instead of 256 - difficulty
ComputeTargetNoSub(d) == Lsh[One, DifficultyUint(d)]

\* line 137 counting the shift from 257
ComputeTargetOffByOne(d) ==
    Lsh[One, WordSub[NatOfInt[HashBits + 1], DifficultyUint(d)]]

\* target := new(big.Int).Lsh[big.NewInt(1), 256-difficultyUint]
ComputeTarget(d) == Lsh[One, ShiftCount(d)]

DeriveTarget ==
    /\ mainPc = "target"
    /\ IF ShlPanics[ShiftCount(difficulty)]
       THEN /\ mainPc' = "panic"
            /\ UNCHANGED target
       ELSE /\ target' = ComputeTarget(difficulty)
            /\ mainPc' = "telemetry"
    /\ UNCHANGED <<workerCount, fromAddress, keccak, challenge, difficulty,
                   cancelled, tickerState, tickBuf, totalHashCount, wgCount, spawned,
                   pc, nonce, mnonce, consumed, mineLog, draws,
                   data, hashesPerSecond, evaluated, sinceTick, emitted, events, txErrors>>

\* line 143 without the defer: cancel() is called as soon as the context is made
StartTelemetryCancelling ==
    /\ mainPc = "telemetry"
    /\ tickerState' = "running"
    /\ cancelled' = TRUE
    /\ mainPc' = IF 0 < workerCount THEN "spawn" ELSE "select"
    /\ UNCHANGED <<workerCount, fromAddress, keccak, challenge, difficulty, target,
                   tickBuf, totalHashCount, wgCount, spawned,
                   pc, nonce, mnonce, consumed, mineLog, draws,
                   data, hashesPerSecond, evaluated, sinceTick, emitted, events, txErrors>>

\* the channels, the context, the ticker and the telemetry goroutine are made;
\* the spawn loop is entered when 0 < workerCount
StartTelemetry ==
    /\ mainPc = "telemetry"
    /\ tickerState' = "running"
    /\ mainPc' = IF 0 < workerCount THEN "spawn" ELSE "select"
    /\ UNCHANGED <<workerCount, fromAddress, keccak, challenge, difficulty, target,
                   cancelled, tickBuf, totalHashCount, wgCount, spawned,
                   pc, nonce, mnonce, consumed, mineLog, draws,
                   data, hashesPerSecond, evaluated, sinceTick, emitted, events, txErrors>>

\* wg.Add(1); go mineWorker(...); i++
SpawnWorker ==
    /\ mainPc = "spawn"
    /\ wgCount' = wgCount + 1
    /\ pc' = [pc EXCEPT ![spawned + 1] = "check"]
    /\ spawned' = spawned + 1
    /\ mainPc' = IF spawned + 1 < workerCount THEN "spawn" ELSE "select"
    /\ UNCHANGED <<workerCount, fromAddress, keccak, challenge, difficulty, target,
                   cancelled, tickerState, tickBuf, totalHashCount,
                   nonce, mnonce, consumed, mineLog, draws,
                   data, hashesPerSecond, evaluated, sinceTick, emitted, events, txErrors>>

\* a coordinator that keeps receiving from resultChan while it waits for the
\* workers
RecvResultDraining(w) ==
    /\ mainPc \in {"select", "wait"}
    /\ pc[w] = "sendResult"
    /\ mnonce' = nonce[w]
    /\ consumed' = Append(consumed, [kind |-> "result", from |-> w, nonce |-> nonce[w]])
    /\ pc' = [pc EXCEPT ![w] = "ret"]
    /\ mainPc' = IF mainPc = "select" THEN "tickerStop" ELSE mainPc
    /\ events' = Logged(w, <<"result">>)
    /\ UNCHANGED <<workerCount, fromAddress, keccak, challenge, difficulty, target,
                   cancelled, tickerState, tickBuf, totalHashCount, wgCount, spawned,
                   nonce, mineLog, draws,
                   data, hashesPerSecond, evaluated, sinceTick, emitted, txErrors>>

\* a worker without the return of line 66: it loops on after its nonce is taken
RecvResultLooping(w) ==
    /\ mainPc = "select"
    /\ pc[w] = "sendResult"
    /\ mnonce' = nonce[w]
    /\ consumed' = Append(consumed, [kind |-> "result", from |-> w, nonce |-> nonce[w]])
    /\ pc' = [pc EXCEPT ![w] = "check"]
    /\ mainPc' = "tickerStop"
    /\ events' = Logged(w, <<"result">>)
    /\ UNCHANGED <<workerCount, fromAddress, keccak, challenge, difficulty, target,
                   cancelled, tickerState, tickBuf, totalHashCount, wgCount, spawned,
                   nonce, mineLog, draws,
                   data, hashesPerSecond, evaluated, sinceTick, emitted, txErrors>>

\* a worker that reports its nonce on resultChan whatever line 64 found
RecvResultUnchecked(w) ==
    /\ mainPc = "select"
    /\ pc[w] \in {"sendResult", "sendCount"}
    /\ mnonce' = nonce[w]
    /\ consumed' = Append(consumed, [kind |-> "result", from |-> w, nonce |-> nonce[w]])
    /\ pc' = [pc EXCEPT ![w] = "ret"]
    /\ mainPc' = "tickerStop"
    /\ events' = Logged(w, <<"result">>)
    /\ UNCHANGED <<workerCount, fromAddress, keccak, challenge, difficulty, target,
                   cancelled, tickerState, tickBuf, totalHashCount, wgCount, spawned,
                   nonce, mineLog, draws,
                   data, hashesPerSecond, evaluated, sinceTick, emitted, txErrors>>

\* case nonce := <-resultChan, meeting worker w's resultChan <- nonce
RecvResult(w) ==
    /\ mainPc = "select"
    /\ pc[w] = "sendResult"
    /\ mnonce' = nonce[w]
    /\ consumed' = Append(consumed, [kind |-> "result", from |-> w, nonce |-> nonce[w]])
    /\ pc' = [pc EXCEPT ![w] = "ret"]
    /\ mainPc' = "tickerStop"
    /\ events' = Logged(w, <<"result">>)
    /\ UNCHANGED <<workerCount, fromAddress, keccak, challenge, difficulty, target,
                   cancelled, tickerState, tickBuf, totalHashCount, wgCount, spawned,
                   nonce, mineLog, draws,
                   data, hashesPerSecond, evaluated, sinceTick, emitted, txErrors>>

\* a select that takes errorChan only when no nonce is offered on resultChan
RecvErrorAfterResults(w) ==
    /\ mainPc = "select"
    /\ pc[w] = "sendErr"
    /\ \A v \in Workers : pc[v] # "sendResult"
    /\ consumed' = Append(consumed, [kind |-> "error", from |-> w, nonce |-> Zero])
    /\ pc' = [pc EXCEPT ![w] = "ret"]
    /\ mainPc' = "cancelE"
    /\ events' = Logged(w, <<"error">>)
    /\ UNCHANGED <<workerCount, fromAddress, keccak, challenge, difficulty, target,
                   cancelled, tickerState, tickBuf, totalHashCount, wgCount, spawned,
                   nonce, mnonce, mineLog, draws,
                   data, hashesPerSecond, evaluated, sinceTick, emitted, txErrors>>

\* a worker without the return of line 56: it loops on after its error is taken
RecvErrorLooping(w) ==
    /\ mainPc = "select"
    /\ pc[w] = "sendErr"
    /\ consumed' = Append(consumed, [kind |-> "error", from |-> w, nonce |-> Zero])
    /\ pc' = [pc EXCEPT ![w] = "check"]
    /\ mainPc' = "cancelE"
    /\ events' = Logged(w, <<"error">>)
    /\ UNCHANGED <<workerCount, fromAddress, keccak, challenge, difficulty, target,
                   cancelled, tickerState, tickBuf, totalHashCount, wgCount, spawned,
                   nonce, mnonce, mineLog, draws,
                   data, hashesPerSecond, evaluated, sinceTick, emitted, txErrors>>

\* case err := <-errorChan, meeting worker w's errorChan <- err
RecvError(w) ==
    /\ mainPc = "select"
    /\ pc[w] = "sendErr"
    /\ consumed' = Append(consumed, [kind |-> "error", from |-> w, nonce |-> Zero])
    /\ pc' = [pc EXCEPT ![w] = "ret"]
    /\ mainPc' = "cancelE"
    /\ events' = Logged(w, <<"error">>)
    /\ UNCHANGED <<workerCount, fromAddress, keccak, challenge, difficulty, target,
                   cancelled, tickerState, tickBuf, totalHashCount, wgCount, spawned,
                   nonce, mnonce, mineLog, draws,
                   data, hashesPerSecond, evaluated, sinceTick, emitted, txErrors>>

\* ticker.Stop(): no new tick is sent; a tick already in ticker.C stays there
TickerStop ==
    /\ mainPc = "tickerStop"
    /\ tickerState' = "stopped"
    /\ mainPc' = "cancel"
    /\ UNCHANGED <<workerCount, fromAddress, keccak, challenge, difficulty, target,
                   cancelled, tickBuf, totalHashCount, wgCount, spawned,
                   pc, nonce, mnonce, consumed, mineLog, draws,
                   data, hashesPerSecond, evaluated, sinceTick, emitted, events, txErrors>>

\* an outcome branch whose cancel() does not close ctx.Done()
CancelForgotten ==
    /\ mainPc \in {"cancel", "cancelE"}
    /\ cancelled' = cancelled
    /\ events' = [w \in Workers |-> events[w] \o <<"cancelRaised">>]
    /\ mainPc' = IF mainPc = "cancel" THEN "wait" ELSE "waitE"
    /\ UNCHANGED <<workerCount, fromAddress, keccak, challenge, difficulty, target,
                   tickerState, tickBuf, totalHashCount, wgCount, spawned,
                   pc, nonce, mnonce, consumed, mineLog, draws,
                   data, hashesPerSecond, evaluated, sinceTick, emitted, txErrors>>

\* cancel() in either branch of the select
Cancel ==
    /\ mainPc \in {"cancel", "cancelE"}
    /\ cancelled' = TRUE
    /\ events' = [w \in Workers |-> events[w] \o <<"cancelRaised">>]
    /\ mainPc' = IF mainPc = "cancel" THEN "wait" ELSE "waitE"
    /\ UNCHANGED <<workerCount, fromAddress, keccak, challenge, difficulty, target,
                   tickerState, tickBuf, totalHashCount, wgCount, spawned,
                   pc, nonce, mnonce, consumed, mineLog, draws,
                   data, hashesPerSecond, evaluated, sinceTick, emitted, txErrors>>

\* a wait that returns without waiting
WgWaitSkipped == TRUE

\* wg.Wait() returns when the counter is zero
WgWaitReturns == wgCount = 0

\* wg.Wait() of the result branch
WaitFound ==
    /\ mainPc = "wait"
    /\ WgWaitReturns
    /\ mainPc' = "mine"
    /\ UNCHANGED <<workerCount, fromAddress, keccak, challenge, difficulty, target,
                   cancelled, tickerState, tickBuf, totalHashCount, wgCount, spawned,
                   pc, nonce, mnonce, consumed, mineLog, draws,
                   data, hashesPerSecond, evaluated, sinceTick, emitted, events, txErrors>>

\* wg.Wait() of the error branch, then logger.Fatalf
WaitFailed ==
    /\ mainPc = "waitE"
    /\ WgWaitReturns
    /\ mainPc' = "fatalSearch"
    /\ UNCHANGED <<workerCount, fromAddress, keccak, challenge, difficulty, target,
                   cancelled, tickerState, tickBuf, totalHashCount, wgCount, spawned,
                   pc, nonce, mnonce, consumed, mineLog, draws,
                   data, hashesPerSecond, evaluated, sinceTick, emitted, events, txErrors>>

\* a submission that is tried again after an error
MineRetrying ==
    /\ mainPc = "mine"
    /\ mineLog' = Append(mineLog, mnonce)
    /\ Len(mineLog) < 2
    /\ \E ok \in BOOLEAN :
          /\ mainPc' = IF ok THEN "waitMined" ELSE "mine"
          /\ txErrors' = IF ok THEN txErrors ELSE Append(txErrors, "submit")
    /\ UNCHANGED <<workerCount, fromAddress, keccak, challenge, difficulty, target,
                   cancelled, tickerState, tickBuf, totalHashCount, wgCount, spawned,
                   pc, nonce, mnonce, consumed, draws,
                   data, hashesPerSecond, evaluated, sinceTick, emitted, events>>

\* tx, err := contract.Mine(auth, nonce); an error ends in logger.Fatalf
Mine ==
    /\ mainPc = "mine"
    /\ mineLog' = Append(mineLog, mnonce)
    /\ \E ok \in BOOLEAN :
          /\ mainPc' = IF ok THEN "waitMined" ELSE "fatalSubmit"
          /\ txErrors' = IF ok THEN txErrors ELSE Append(txErrors, "submit")
    /\ UNCHANGED <<workerCount, fromAddress, keccak, challenge, difficulty, target,
                   cancelled, tickerState, tickBuf, totalHashCount, wgCount, spawned,
                   pc, nonce, mnonce, consumed, draws,
                   data, hashesPerSecond, evaluated, sinceTick, emitted, events>>

\* a confirmation error that is logged without ending the process
WaitMinedIgnoringError ==
    /\ mainPc = "waitMined"
    /\ \E ok \in BOOLEAN :
          IF ok THEN /\ mainPc' = "completed"
                     /\ cancelled' = TRUE
                     /\ UNCHANGED txErrors
                ELSE /\ mainPc' = "completed"
                     /\ cancelled' = TRUE
                     /\ txErrors' = Append(txErrors, "confirm")
    /\ UNCHANGED <<workerCount, fromAddress, keccak, challenge, difficulty, target,
                   tickerState, tickBuf, totalHashCount, wgCount, spawned,
                   pc, nonce, mnonce, consumed, mineLog, draws,
                   data, hashesPerSecond, evaluated, sinceTick, emitted, events>>

\* bind.WaitMined; on success main logs, returns and the deferred cancel() runs
WaitMined ==
    /\ mainPc = "waitMined"
    /\ \E ok \in BOOLEAN :
          IF ok THEN /\ mainPc' = "completed"
                     /\ cancelled' = TRUE
                     /\ UNCHANGED txErrors
                ELSE /\ mainPc' = "fatalConfirm"
                     /\ txErrors' = Append(txErrors, "confirm")
                     /\ UNCHANGED cancelled
    /\ UNCHANGED <<workerCount, fromAddress, keccak, challenge, difficulty, target,
                   tickerState, tickBuf, totalHashCount, wgCount, spawned,
                   pc, nonce, mnonce, consumed, mineLog, draws,
                   data, hashesPerSecond, evaluated, sinceTick, emitted, events>>

(* ---------------------------- mineWorker ------------------------------ *)

\* a worker that looks at ctx.Done() only every other time: it goes on to draw
\* although the context is cancelled
WorkerCheckLate(w) ==
    /\ Alive
    /\ pc[w] = "check"
    /\ \/ /\ cancelled
          /\ pc' = [pc EXCEPT ![w] = "stopped"]
          /\ wgCount' = wgCount - 1
          /\ events' = Logged(w, <<"cancelSeen", "done">>)
          /\ UNCHANGED draws
       \/ /\ draws < MaxDraws
          /\ pc' = [pc EXCEPT ![w] = "draw"]
          /\ draws' = draws + 1
          /\ UNCHANGED <<wgCount, events>>
    /\ UNCHANGED <<workerCount, fromAddress, keccak, mainPc, challenge, difficulty,
                   target, cancelled, tickerState, tickBuf, totalHashCount, spawned,
                   nonce, mnonce, consumed, mineLog,
                   data, hashesPerSecond, evaluated, sinceTick, emitted, txErrors>>

\* a worker that reports ctx.Err() on errorChan when it sees the cancellation
WorkerCheckReporting(w) ==
    /\ Alive
    /\ pc[w] = "check"
    /\ IF cancelled
       THEN /\ pc' = [pc EXCEPT ![w] = "sendErr"]
            /\ events' = Logged(w, <<"cancelSeen">>)
            /\ UNCHANGED <<wgCount, draws>>
       ELSE /\ draws < MaxDraws
            /\ pc' = [pc EXCEPT ![w] = "draw"]
            /\ draws' = draws + 1
            /\ UNCHANGED <<wgCount, events>>
    /\ UNCHANGED <<workerCount, fromAddress, keccak, mainPc, challenge, difficulty,
                   target, cancelled, tickerState, tickBuf, totalHashCount, spawned,
                   nonce, mnonce, consumed, mineLog,
                   data, hashesPerSecond, evaluated, sinceTick, emitted, txErrors>>

\* a worker that gives up after its first rejected attempt
WorkerCheckLimited(w) ==
    /\ Alive
    /\ pc[w] = "check"
    /\ IF cancelled \/ (\E i \in 1..Len(events[w]) : events[w][i] = "count")
       THEN /\ pc' = [pc EXCEPT ![w] = "stopped"]
            /\ wgCount' = wgCount - 1
            /\ events' = Logged(w, <<"done">>)
            /\ UNCHANGED draws
       ELSE /\ draws < MaxDraws
            /\ pc' = [pc EXCEPT ![w] = "draw"]
            /\ draws' = draws + 1
            /\ UNCHANGED <<wgCount, events>>
    /\ UNCHANGED <<workerCount, fromAddress, keccak, mainPc, challenge, difficulty,
                   target, cancelled, tickerState, tickBuf, totalHashCount, spawned,
                   nonce, mnonce, consumed, mineLog,
                   data, hashesPerSecond, evaluated, sinceTick, emitted, txErrors>>

\* select { case <-ctx.Done(): return (deferred wg.Done) ; default: ... }
WorkerCheck(w) ==
    /\ Alive
    /\ pc[w] = "check"
    /\ IF cancelled
       THEN /\ pc' = [pc EXCEPT ![w] = "stopped"]
            /\ wgCount' = wgCount - 1
            /\ events' = Logged(w, <<"cancelSeen", "done">>)
            /\ UNCHANGED draws
       ELSE /\ draws < MaxDraws
            /\ pc' = [pc EXCEPT ![w] = "draw"]
            /\ draws' = draws + 1
            /\ UNCHANGED <<wgCount, events>>
    /\ UNCHANGED <<workerCount, fromAddress, keccak, mainPc, challenge, difficulty,
                   target, cancelled, tickerState, tickBuf, totalHashCount, spawned,
                   nonce, mnonce, consumed, mineLog,
                   data, hashesPerSecond, evaluated, sinceTick, emitted, txErrors>>

\* a failed rand.Int that is counted as an attempt and tried again
WorkerDrawFailsCounted(w) ==
    /\ Alive
    /\ pc[w] = "draw"
    /\ pc' = [pc EXCEPT ![w] = "sendCount"]
    /\ events' = Logged(w, <<"randErr">>)
    /\ UNCHANGED <<workerCount, fromAddress, keccak, mainPc, challenge, difficulty,
                   target, cancelled, tickerState, tickBuf, totalHashCount, wgCount,
                   spawned, nonce, mnonce, consumed, mineLog, draws,
                   data, hashesPerSecond, evaluated, sinceTick, emitted, txErrors>>

\* rand.Int returns an error: the worker goes to errorChan <- ...
WorkerDrawFails(w) ==
    /\ Alive
    /\ pc[w] = "draw"
    /\ pc' = [pc EXCEPT ![w] = "sendErr"]
    /\ events' = Logged(w, <<"randErr">>)
    /\ UNCHANGED <<workerCount, fromAddress, keccak, mainPc, challenge, difficulty,
                   target, cancelled, tickerState, tickBuf, totalHashCount, wgCount,
                   spawned, nonce, mnonce, consumed, mineLog, draws,
                   data, hashesPerSecond, evaluated, sinceTick, emitted, txErrors>>

\* a worker that adds to the counter itself before it reports the attempt
WorkerDrawCounting(w) ==
    /\ Alive
    /\ pc[w] = "draw"
    /\ \E n \in Nonces :
          /\ nonce' = [nonce EXCEPT ![w] = n]
          /\ data' = [data EXCEPT ![w] = HashInput(challenge, fromAddress, n)]
          /\ evaluated' = evaluated \cup {Evaluation(challenge, fromAddress, n, target)}
          /\ totalHashCount' =
                 IF Accepted(challenge, fromAddress, n, target)
                 THEN totalHashCount ELSE totalHashCount + 1
          /\ events' = Logged(w,
                 IF Accepted(challenge, fromAddress, n, target)
                 THEN <<"accepted">> ELSE <<"rejected">>)
          /\ pc' = [pc EXCEPT ![w] =
                       IF Accepted(challenge, fromAddress, n, target)
                       THEN "sendResult" ELSE "sendCount"]
    /\ UNCHANGED <<workerCount, fromAddress, keccak, mainPc, challenge, difficulty,
                   target, cancelled, tickerState, tickBuf, wgCount,
                   spawned, mnonce, consumed, mineLog, draws,
                   hashesPerSecond, sinceTick, emitted, txErrors>>

\* the first worker compares with "not greater", the others with "less"
WorkerDrawSkewed(w) ==
    /\ Alive
    /\ pc[w] = "draw"
    /\ \E n \in Nonces :
          /\ nonce' = [nonce EXCEPT ![w] = n]
          /\ data' = [data EXCEPT ![w] = HashInput(challenge, fromAddress, n)]
          /\ evaluated' = evaluated \cup
                 {[Evaluation(challenge, fromAddress, n, target) EXCEPT
                      !.accepted = IF w = 1
                                   THEN AcceptedOrEqual(challenge, fromAddress, n, target)
                                   ELSE Accepted(challenge, fromAddress, n, target)]}
          /\ events' = Logged(w,
                 IF (IF w = 1
                     THEN AcceptedOrEqual(challenge, fromAddress, n, target)
                     ELSE Accepted(challenge, fromAddress, n, target))
                 THEN <<"accepted">> ELSE <<"rejected">>)
          /\ pc' = [pc EXCEPT ![w] =
                       IF (IF w = 1
                           THEN AcceptedOrEqual(challenge, fromAddress, n, target)
                           ELSE Accepted(challenge, fromAddress, n, target))
                       THEN "sendResult" ELSE "sendCount"]
    /\ UNCHANGED <<workerCount, fromAddress, keccak, mainPc, challenge, difficulty,
                   target, cancelled, tickerState, tickBuf, totalHashCount, wgCount,
                   spawned, mnonce, consumed, mineLog, draws,
                   hashesPerSecond, sinceTick, emitted, txErrors>>

\* line 64 comparing with target.Lsh(target, 1), which writes the shared target
WorkerDrawShifting(w) ==
    /\ Alive
    /\ pc[w] = "draw"
    /\ target' = Lsh[target, One]
    /\ \E n \in Nonces :
          /\ nonce' = [nonce EXCEPT ![w] = n]
          /\ data' = [data EXCEPT ![w] = HashInput(challenge, fromAddress, n)]
          /\ evaluated' = evaluated \cup {Evaluation(challenge, fromAddress, n, target)}
          /\ events' = Logged(w,
                 IF Accepted(challenge, fromAddress, n, target)
                 THEN <<"accepted">> ELSE <<"rejected">>)
          /\ pc' = [pc EXCEPT ![w] =
                       IF Accepted(challenge, fromAddress, n, target)
                       THEN "sendResult" ELSE "sendCount"]
    /\ UNCHANGED <<workerCount, fromAddress, keccak, mainPc, challenge, difficulty,
                   cancelled, tickerState, tickBuf, totalHashCount, wgCount,
                   spawned, mnonce, consumed, mineLog, draws,
                   hashesPerSecond, sinceTick, emitted, txErrors>>

\* rand.Int returns n; the candidate is hashed and compared, and the worker goes
\* to resultChan <- nonce or to hashCountChan <- 1
WorkerDraw(w) ==
    /\ Alive
    /\ pc[w] = "draw"
    /\ \E n \in Nonces :
          /\ nonce' = [nonce EXCEPT ![w] = n]
          /\ data' = [data EXCEPT ![w] = HashInput(challenge, fromAddress, n)]
          /\ evaluated' = evaluated \cup {Evaluation(challenge, fromAddress, n, target)}
          /\ events' = Logged(w,
                 IF Accepted(challenge, fromAddress, n, target)
                 THEN <<"accepted">> ELSE <<"rejected">>)
          /\ pc' = [pc EXCEPT ![w] =
                       IF Accepted(challenge, fromAddress, n, target)
                       THEN "sendResult" ELSE "sendCount"]
    /\ UNCHANGED <<workerCount, fromAddress, keccak, mainPc, challenge, difficulty,
                   target, cancelled, tickerState, tickBuf, totalHashCount, wgCount,
                   spawned, mnonce, consumed, mineLog, draws,
                   hashesPerSecond, sinceTick, emitted, txErrors>>

\* a return after a send that does not reach wg.Done()
WorkerReturnWithoutDone(w) ==
    /\ Alive
    /\ pc[w] = "ret"
    /\ pc' = [pc EXCEPT ![w] = "stopped"]
    /\ wgCount' = wgCount
    /\ events' = Logged(w, <<"done">>)
    /\ UNCHANGED <<workerCount, fromAddress, keccak, mainPc, challenge, difficulty,
                   target, cancelled, tickerState, tickBuf, totalHashCount,
                   spawned, nonce, mnonce, consumed, mineLog, draws,
                   data, hashesPerSecond, evaluated, sinceTick, emitted, txErrors>>

\* return after a completed send on resultChan or errorChan: deferred wg.Done()
WorkerReturn(w) ==
    /\ Alive
    /\ pc[w] = "ret"
    /\ pc' = [pc EXCEPT ![w] = "stopped"]
    /\ wgCount' = wgCount - 1
    /\ events' = Logged(w, <<"done">>)
    /\ UNCHANGED <<workerCount, fromAddress, keccak, mainPc, challenge, difficulty,
                   target, cancelled, tickerState, tickBuf, totalHashCount,
                   spawned, nonce, mnonce, consumed, mineLog, draws,
                   data, hashesPerSecond, evaluated, sinceTick, emitted, txErrors>>

(* ----------------------- the telemetry goroutine ---------------------- *)

\* the runtime sends a tick; it is dropped when ticker.C is full
TickerFires ==
    /\ Alive
    /\ tickerState = "running"
    /\ tickBuf = 0
    /\ tickBuf' = 1
    /\ UNCHANGED <<workerCount, fromAddress, keccak, mainPc, challenge, difficulty,
                   target, cancelled, tickerState, totalHashCount, wgCount, spawned,
                   pc, nonce, mnonce, consumed, mineLog, draws,
                   data, hashesPerSecond, evaluated, sinceTick, emitted, events, txErrors>>

\* the tick branch without line 158: the counter runs on
AggTickCumulative ==
    /\ Alive
    /\ tickerState # "none"
    /\ tickBuf = 1
    /\ tickBuf' = 0
    /\ hashesPerSecond' = [num |-> totalHashCount, den |-> RateScale]
    /\ totalHashCount' = totalHashCount
    /\ sinceTick' = 0
    /\ emitted' = emitted + hashesPerSecond'.num
    /\ UNCHANGED <<workerCount, fromAddress, keccak, mainPc, challenge, difficulty,
                   target, cancelled, tickerState, wgCount, spawned,
                   pc, nonce, mnonce, consumed, mineLog, draws,
                   data, evaluated, events, txErrors>>

\* case <-ticker.C: print the rate, totalHashCount = 0
AggTick ==
    /\ Alive
    /\ tickerState # "none"
    /\ tickBuf = 1
    /\ tickBuf' = 0
    /\ hashesPerSecond' = [num |-> totalHashCount, den |-> RateScale]
    /\ totalHashCount' = 0
    /\ sinceTick' = 0
    /\ emitted' = emitted + hashesPerSecond'.num
    /\ UNCHANGED <<workerCount, fromAddress, keccak, mainPc, challenge, difficulty,
                   target, cancelled, tickerState, wgCount, spawned,
                   pc, nonce, mnonce, consumed, mineLog, draws,
                   data, evaluated, events, txErrors>>

\* a worker whose loop goes back to rand.Int without looking at ctx.Done()
AggRecvRedraw(w) ==
    /\ Alive
    /\ tickerState # "none"
    /\ pc[w] = "sendCount"
    /\ totalHashCount' = totalHashCount + 1
    /\ sinceTick' = sinceTick + 1
    /\ emitted' = emitted
    /\ pc' = [pc EXCEPT ![w] = "draw"]
    /\ events' = Logged(w, <<"count">>)
    /\ UNCHANGED <<workerCount, fromAddress, keccak, mainPc, challenge, difficulty,
                   target, cancelled, tickerState, tickBuf, wgCount, spawned,
                   nonce, mnonce, consumed, mineLog, draws,
                   data, hashesPerSecond, evaluated, txErrors>>

\* a telemetry goroutine that ends when the ticker is stopped
AggRecvUntilStop(w) ==
    /\ Alive
    /\ tickerState = "running"
    /\ pc[w] = "sendCount"
    /\ totalHashCount' = totalHashCount + 1
    /\ sinceTick' = sinceTick + 1
    /\ emitted' = emitted
    /\ pc' = [pc EXCEPT ![w] = "check"]
    /\ events' = Logged(w, <<"count">>)
    /\ UNCHANGED <<workerCount, fromAddress, keccak, mainPc, challenge, difficulty,
                   target, cancelled, tickerState, tickBuf, wgCount, spawned,
                   nonce, mnonce, consumed, mineLog, draws,
                   data, hashesPerSecond, evaluated, txErrors>>

\* a receive branch that adds the count it received twice
AggRecvTwice(w) ==
    /\ Alive
    /\ tickerState # "none"
    /\ pc[w] = "sendCount"
    /\ totalHashCount' = totalHashCount + 2
    /\ sinceTick' = sinceTick + 1
    /\ emitted' = emitted
    /\ pc' = [pc EXCEPT ![w] = "check"]
    /\ events' = Logged(w, <<"count">>)
    /\ UNCHANGED <<workerCount, fromAddress, keccak, mainPc, challenge, difficulty,
                   target, cancelled, tickerState, tickBuf, wgCount, spawned,
                   nonce, mnonce, consumed, mineLog, draws,
                   data, hashesPerSecond, evaluated, txErrors>>

\* case count := <-hashCountChan, meeting worker w's hashCountChan <- 1
AggRecv(w) ==
    /\ Alive
    /\ tickerState # "none"
    /\ pc[w] = "sendCount"
    /\ totalHashCount' = totalHashCount + 1
    /\ sinceTick' = sinceTick + 1
    /\ emitted' = emitted
    /\ pc' = [pc EXCEPT ![w] = "check"]
    /\ events' = Logged(w, <<"count">>)
    /\ UNCHANGED <<workerCount, fromAddress, keccak, mainPc, challenge, difficulty,
                   target, cancelled, tickerState, tickBuf, wgCount, spawned,
                   nonce, mnonce, consumed, mineLog, draws,
                   data, hashesPerSecond, evaluated, txErrors>>

(* -------------------------- specifications ---------------------------- *)

MainStep ==
    \/ FetchParameters
    \/ FetchFails
    \/ DeriveTarget
    \/ StartTelemetry
    \/ SpawnWorker
    \/ \E w \in Workers : RecvResult(w)
    \/ \E w \in Workers : RecvError(w)
    \/ TickerStop
    \/ Cancel
    \/ WaitFound
    \/ WaitFailed
    \/ Mine
    \/ WaitMined

WorkerStep(w) ==
    \/ WorkerCheck(w)
    \/ WorkerDrawFails(w)
    \/ WorkerDraw(w)
    \/ WorkerReturn(w)

TelemetryStep ==
    \/ AggTick
    \/ \E w \in Workers : AggRecv(w)

Next ==
    \/ MainStep
    \/ \E w \in Workers : WorkerStep(w)
    \/ TelemetryStep
    \/ TickerFires

Spec == Init /\ [][Next]_vars

\* The Go scheduler runs every runnable goroutine, a select picks among its
\* ready cases at random, and the runtime timer keeps firing.
FairSpec ==
    /\ Spec
    /\ WF_vars(MainStep)
    /\ \A w \in Workers : WF_vars(WorkerStep(w))
    /\ \A w \in Workers : WF_vars(AggRecv(w))
    /\ WF_vars(AggTick)
    /\ WF_vars(TickerFires)

\* The target derivation alone, over every difficulty 0 .. 256 and a few more.
FetchSmallDifficulty ==
    /\ mainPc = "fetch"
    /\ \E c \in Challenges, d \in SmallDifficulties :
          /\ challenge' = c
          /\ difficulty' = d
    /\ mainPc' = "target"
    /\ UNCHANGED <<workerCount, fromAddress, keccak, target, cancelled, tickerState,
                   tickBuf, totalHashCount, wgCount, spawned, pc, nonce, mnonce,
                   consumed, mineLog, draws,
                   data, hashesPerSecond, evaluated, sinceTick, emitted, events, txErrors>>

NextTarget ==
    \/ FetchSmallDifficulty
    \/ DeriveTarget

SpecTarget == Init /\ [][NextTarget]_vars

\* The same program on runs whose digests lie at and next to a target: of the
\* inputs hashed in the run one has a digest t - 1 and another the digest t,
\* for t = 1 or t = 2^255, and at least one worker is asked for.
BoundaryPairs == {{ZeroDigest, OneDigest}, {BelowTopDigest, TopDigest}}

BoundaryTables ==
    {t \in [DataSpace -> BoundaryDigests] : {t[x] : x \in DataSpace} \in BoundaryPairs}

InitBoundary ==
    /\ workerCount \in 1..MaxWorkers
    /\ fromAddress \in Addresses
    /\ keccak \in BoundaryTables
    /\ mainPc = "fetch"
    /\ challenge = Zero
    /\ difficulty = Zero
    /\ target = Zero
    /\ cancelled = FALSE
    /\ tickerState = "none"
    /\ tickBuf = 0
    /\ totalHashCount = 0
    /\ wgCount = 0
    /\ spawned = 0
    /\ pc = [w \in Workers |-> "idle"]
    /\ nonce = [w \in Workers |-> Zero]
    /\ mnonce = Zero
    /\ consumed = <<>>
    /\ mineLog = <<>>
    /\ draws = 0
    /\ data = [w \in Workers |-> <<>>]
    /\ hashesPerSecond = [num |-> 0, den |-> 1]
    /\ evaluated = {}
    /\ sinceTick = 0
    /\ emitted = 0
    /\ events = [w \in Workers |-> <<>>]
    /\ txErrors = <<>>

SpecBoundary == InitBoundary /\ [][Next]_vars

\* The program started with -workerCount 1.
InitSingle ==
    /\ workerCount = 1
    /\ fromAddress \in Addresses
    /\ keccak \in [DataSpace -> Digests]
    /\ mainPc = "fetch"
    /\ challenge = Zero
    /\ difficulty = Zero
    /\ target = Zero
    /\ cancelled = FALSE
    /\ tickerState = "none"
    /\ tickBuf = 0
    /\ totalHashCount = 0
    /\ wgCount = 0
    /\ spawned = 0
    /\ pc = [w \in Workers |-> "idle"]
    /\ nonce = [w \in Workers |-> Zero]
    /\ mnonce = Zero
    /\ consumed = <<>>
    /\ mineLog = <<>>
    /\ draws = 0
    /\ data = [w \in Workers |-> <<>>]
    /\ hashesPerSecond = [num |-> 0, den |-> 1]
    /\ evaluated = {}
    /\ sinceTick = 0
    /\ emitted = 0
    /\ events = [w \in Workers |-> <<>>]
    /\ txErrors = <<>>

SpecSingle == InitSingle /\ [][Next]_vars

FairSpecSingle ==
    /\ SpecSingle
    /\ WF_vars(MainStep)
    /\ \A w \in Workers : WF_vars(WorkerStep(w))
    /\ \A w \in Workers : WF_vars(AggRecv(w))
    /\ WF_vars(AggTick)
    /\ WF_vars(TickerFires)

\* The program with the goroutine of lines 151-163 left out: hashCountChan and
\* the ticker are still made, but nothing receives from either.
NextNoTelemetry == MainStep \/ \E w \in Workers : WorkerStep(w)

SpecNoTelemetry == Init /\ [][NextNoTelemetry]_vars

FairSpecNoTelemetry ==
    /\ SpecNoTelemetry
    /\ WF_vars(MainStep)
    /\ \A w \in Workers : WF_vars(WorkerStep(w))

\* The first evaluations of a round on challenges and nonces of every length
\* from no byte to 32 bytes: 0, 255, 256, 2^16 + 2, 2^248 and 2^256 - 1.  The
\* digest plays no part in what is hashed and is 0 throughout.
EncodeValues ==
    {Zero, NatOfInt[255], NatOfInt[256], NatOfInt[Base + 2],
     [i \in 1..(HashBits \div LimbBits) |-> IF i = HashBits \div LimbBits THEN 256 ELSE 0],
     MaxUint256}

EncodeDataSpace ==
    {HashInput(c, a, n) : c \in EncodeValues, a \in Addresses, n \in EncodeValues}

InitEncode ==
    /\ workerCount \in 1..MaxWorkers
    /\ fromAddress \in Addresses
    /\ keccak = [x \in EncodeDataSpace |-> ZeroDigest]
    /\ mainPc = "fetch"
    /\ challenge = Zero
    /\ difficulty = Zero
    /\ target = Zero
    /\ cancelled = FALSE
    /\ tickerState = "none"
    /\ tickBuf = 0
    /\ totalHashCount = 0
    /\ wgCount = 0
    /\ spawned = 0
    /\ pc = [w \in Workers |-> "idle"]
    /\ nonce = [w \in Workers |-> Zero]
    /\ mnonce = Zero
    /\ consumed = <<>>
    /\ mineLog = <<>>
    /\ draws = 0
    /\ data = [w \in Workers |-> <<>>]
    /\ hashesPerSecond = [num |-> 0, den |-> 1]
    /\ evaluated = {}
    /\ sinceTick = 0
    /\ emitted = 0
    /\ events = [w \in Workers |-> <<>>]
    /\ txErrors = <<>>

FetchAnyChallenge ==
    /\ mainPc = "fetch"
    /\ \E c \in EncodeValues, d \in {Zero, NatOfInt[HashBits]} :
          /\ challenge' = c
          /\ difficulty' = d
    /\ mainPc' = "target"
    /\ UNCHANGED <<workerCount, fromAddress, keccak, target, cancelled, tickerState,
                   tickBuf, totalHashCount, wgCount, spawned, pc, nonce, mnonce,
                   consumed, mineLog, draws,
                   data, hashesPerSecond, evaluated, sinceTick, emitted, events, txErrors>>

WorkerDrawAny(w) ==
    /\ Alive
    /\ pc[w] = "draw"
    /\ \E n \in EncodeValues :
          /\ nonce' = [nonce EXCEPT ![w] = n]
          /\ data' = [data EXCEPT ![w] = HashInput(challenge, fromAddress, n)]
          /\ evaluated' = evaluated \cup {Evaluation(challenge, fromAddress, n, target)}
          /\ events' = Logged(w,
                 IF Accepted(challenge, fromAddress, n, target)
                 THEN <<"accepted">> ELSE <<"rejected">>)
          /\ pc' = [pc EXCEPT ![w] =
                       IF Accepted(challenge, fromAddress, n, target)
                       THEN "sendResult" ELSE "sendCount"]
    /\ UNCHANGED <<workerCount, fromAddress, keccak, mainPc, challenge, difficulty,
                   target, cancelled, tickerState, tickBuf, totalHashCount, wgCount,
                   spawned, mnonce, consumed, mineLog, draws,
                   hashesPerSecond, sinceTick, emitted, txErrors>>

NextEncode ==
    \/ FetchAnyChallenge
    \/ DeriveTarget
    \/ StartTelemetry
    \/ SpawnWorker
    \/ \E w \in Workers : WorkerCheck(w)
    \/ \E w \in Workers : WorkerDrawAny(w)

SpecEncode == InitEncode /\ [][NextEncode]_vars

(* ------------------------------ claims -------------------------------- *)

\* main has left the select through one of its two cases
PastSelect == Len(consumed) > 0

\* wg.Wait() of either branch has returned
AfterWait ==
    mainPc \in {"mine", "waitMined", "completed", "fatalSearch", "fatalSubmit",
                "fatalConfirm"}

\* C1: the coordinator consumes at most one terminal message in a round: one
\* nonce from resultChan or one error from errorChan, never both and never two
\* of a kind.
C1_AtMostOneOutcome == Len(consumed) <= 1

\* C1 witness: main has consumed one message while another worker stands in a
\* send on resultChan or errorChan.
C1_Witness ==
    /\ Len(consumed) = 1
    /\ \E w \in Workers : w # consumed[1].from /\ pc[w] \in {"sendResult", "sendErr"}

\* C2: once the cancellation signal is raised every worker terminates and
\* wg.Wait() returns.
C2_WaitReturns == [](cancelled => <>AfterWait)

\* C3: when two workers find an accepted nonce, the first nonce received is
\* the one submitted and the round runs to completion: the nonce is handed to
\* contract.Mine.
C3_TwoFindersHarmless ==
    /\ []((\E v, w \in Workers : v # w /\ pc[v] = "sendResult" /\ pc[w] = "sendResult")
            => <>(mineLog # <<>>))
    /\ [](mineLog # <<>> => mineLog[1] = consumed[1].nonce)

\* C4: contract.Mine is called at most once, only after a nonce was received
\* from resultChan and with that nonce; never in the error branch, and not
\* again after it failed.
C4_MineOnceWithReceivedNonce ==
    /\ Len(mineLog) <= 1
    /\ mineLog # <<>> =>
          /\ Len(consumed) = 1
          /\ consumed[1].kind = "result"
          /\ mineLog[1] = consumed[1].nonce
          /\ mainPc \in {"waitMined", "completed", "fatalSubmit", "fatalConfirm"}
    /\ (consumed # <<>> /\ consumed[1].kind = "error") => mineLog = <<>>

\* C4 witness: the submission failed after one call with the received nonce.
C4_Witness ==
    /\ mainPc = "fatalSubmit"
    /\ mineLog = <<consumed[1].nonce>>
    /\ consumed[1].nonce # Zero

\* C5 as stated: from the moment main has consumed the result or the error, no
\* worker starts a draw or evaluates a candidate.
C5_NoDrawAfterOutcome ==
    [][PastSelect =>
          \A w \in Workers :
              /\ ~(pc[w] = "check" /\ pc'[w] = "draw")
              /\ ~(pc[w] = "draw" /\ pc'[w] # "draw")]_vars

\* C5 amended: from the moment cancel() has been called, no worker passes its
\* loop-top check into a new draw.
C5_NoNewDrawAfterCancel ==
    [][cancelled => \A w \in Workers : ~(pc[w] = "check" /\ pc'[w] = "draw")]_vars

\* C5 witness: a worker other than the sender stopped at its loop-top check
\* while a further draw was still within the bound.
C5_Witness ==
    /\ cancelled
    /\ draws < MaxDraws
    /\ Alive
    /\ \E w \in Workers : w # consumed[1].from /\ pc[w] = "stopped"

\* C6: after wg.Wait() has returned every spawned worker is stopped and no
\* hash-count send can take place.
C6_AllStoppedAfterWait ==
    AfterWait =>
        \A w \in Workers :
            /\ pc[w] = IF w <= workerCount THEN "stopped" ELSE "idle"
            /\ ~ENABLED AggRecv(w)

\* C6 witness: the wait returned with two workers, one of which had reported a
\* rejected attempt.
C6_Witness ==
    /\ mainPc = "mine"
    /\ workerCount >= 2
    /\ draws >= 2
    /\ \A w \in 1..workerCount : pc[w] = "stopped"

\* C7: when a randomness draw fails and no nonce is consumed, main eventually
\* reports the failure (logger.Fatalf of the error branch) and contract.Mine
\* is never called.
C7_RandomnessFailureSurfaces ==
    /\ []((\E w \in Workers : pc[w] = "sendErr")
            => <>(mainPc = "fatalSearch"
                  \/ (consumed # <<>> /\ consumed[1].kind = "result")))
    /\ []((consumed # <<>> /\ consumed[1].kind = "error") => mineLog = <<>>)

\* C8: workerCount < 1 is rejected before any worker starts: main never
\* reaches the spawn loop or the select with it.
C8_ZeroWorkersRejected ==
    workerCount < 1 => mainPc \notin {"spawn", "select"}

\* difficulty > 256
DifficultyOutOfRange == Cmp[difficulty, NatOfInt[HashBits]] = 1

\* C9: with a difficulty above 256 no target is derived and no worker is
\* spawned: main stops before the telemetry and the spawn loop.
C9_LargeDifficultyRejected ==
    DifficultyOutOfRange =>
        /\ target = Zero
        /\ spawned = 0
        /\ mainPc \in {"target", "fatalFetch", "panic"}

\* 2^k in limbs
IsPowerOfTwo(t, k) ==
    /\ Len(t) = (k \div LimbBits) + 1
    /\ \A i \in 1..Len(t) :
          t[i] = IF i = Len(t) THEN 2 ^ (k % LimbBits) ELSE 0

\* C10: for a difficulty d in 0..256 the target is 2^(256-d); it does not grow
\* with d; it is 2^256 at d = 0 and 1 at d = 256.
C10_TargetIsPowerOfTwo ==
    (mainPc # "fetch" /\ ~DifficultyOutOfRange) =>
        LET d == IntOfWord[difficulty]
        IN  /\ mainPc # "panic"
            /\ mainPc = "telemetry" =>
                  /\ IsPowerOfTwo(target, HashBits - d)
                  /\ \A e \in 0..d : Cmp[target, ComputeTarget(NatOfInt[e])] <= 0
                  /\ d = HashBits => target = One
                  /\ d = 0 => target = NonceBound

\* C10 witness: difficulty 256 gave target 1.
C10_Witness ==
    /\ mainPc = "telemetry"
    /\ difficulty = NatOfInt[HashBits]
    /\ target = One

(* ------------------------------ C11 ----------------------------------- *)

\* x + 1
PlusOne[x \in Limbs] ==
    IF x = <<>> THEN <<1>>
    ELSE IF x[1] < Base - 1 THEN [x EXCEPT ![1] = x[1] + 1]
    ELSE <<0>> \o PlusOne[Tail(x)]

\* x < y, read off the big-endian bytes of x and y at a common width
WideLen == 2 * PadLen

BelowBytes(x, y) ==
    LET a == LeftPadBytes[Bytes[x], WideLen]
        b == LeftPadBytes[Bytes[y], WideLen]
    IN  \E i \in 1..WideLen : a[i] < b[i] /\ \A j \in 1..(i - 1) : a[j] = b[j]

\* a worker that has hashed its nonce and stands at one of the two sends
Evaluated(w) == pc[w] \in {"sendResult", "sendCount"}

DigestOf(w) == HashBig[keccak[data[w]]]

\* C11: a candidate is accepted exactly when its digest, as an unsigned
\* integer, is strictly below the target: the worker goes to the send on
\* resultChan iff digest < target; with digest = target - 1 it reports the
\* nonce, with digest = target it reports one hash-count unit.
C11_AcceptedIffBelowTarget ==
    \A w \in Workers :
        Evaluated(w) =>
            /\ pc[w] = "sendResult" <=> BelowBytes(DigestOf(w), target)
            /\ PlusOne[DigestOf(w)] = target => pc[w] = "sendResult"
            /\ DigestOf(w) = target => pc[w] = "sendCount"

C11_Witness ==
    \E v, w \in Workers :
        /\ pc[v] = "sendResult" /\ PlusOne[DigestOf(v)] = target
        /\ pc[w] = "sendCount" /\ DigestOf(w) = target

(* ------------------------------ C12 ----------------------------------- *)

SingleAtZero == workerCount = 1 /\ mainPc # "fetch" /\ difficulty = Zero

FoundFirst ==
    /\ Len(consumed) = 1
    /\ consumed[1].kind = "result"
    /\ draws = 1
    /\ sinceTick = 0

DrawFailed == \E w \in Workers : pc[w] = "sendErr"

\* C12: with one worker and difficulty 0 (target 2^256) the first candidate is
\* accepted: no hash-count message is ever sent or received, at most one draw
\* is made, and unless rand.Int fails main eventually receives the nonce of
\* that first draw from resultChan.
C12_FirstAttemptFound ==
    /\ [](SingleAtZero =>
            /\ \A w \in Workers : pc[w] # "sendCount"
            /\ totalHashCount = 0 /\ sinceTick = 0
            /\ draws <= 1)
    /\ ((SingleAtZero /\ mainPc = "target") ~> (FoundFirst \/ DrawFailed))

C12_Witness == SingleAtZero /\ FoundFirst /\ mainPc = "mine"

(* ------------------------------ C13 ----------------------------------- *)

AtMaxDifficulty == mainPc # "fetch" /\ difficulty = NatOfInt[HashBits]

\* C13: at difficulty 256 (target 1) a nonce is sent on resultChan, and
\* received by main, only if its digest is exactly zero, for any number of
\* workers and any sequence of attempts.
C13_OnlyZeroDigestAtMaxDifficulty ==
    AtMaxDifficulty =>
        /\ \A w \in Workers : pc[w] = "sendResult" => keccak[data[w]] = ZeroDigest
        /\ \A e \in evaluated : e.accepted => e.digest = ZeroDigest
        /\ \A i \in 1..Len(consumed) :
               consumed[i].kind = "result" =>
                   keccak[HashInput(challenge, fromAddress, consumed[i].nonce)] = ZeroDigest

C13_Witness ==
    /\ AtMaxDifficulty
    /\ \E v, w \in Workers :
           /\ pc[v] = "sendResult"
           /\ pc[w] = "sendCount" /\ keccak[data[w]] = OneDigest

(* ------------------------------ C14 ----------------------------------- *)

\* the telemetry goroutine takes a tick out of ticker.C
TickTaken == tickBuf = 1 /\ tickBuf' = 0

\* C14: at every tick the telemetry goroutine emits the sum of the hash-count
\* increments it received since the previous tick, as that sum over the fixed
\* scale 1000, and the counter is zero right after the emission.
C14_TickEmitsSumAndResets ==
    /\ [](totalHashCount = sinceTick)
    /\ [][TickTaken =>
              /\ hashesPerSecond' = [num |-> sinceTick, den |-> RateScale]
              /\ totalHashCount' = 0]_vars

C14_Witness ==
    /\ hashesPerSecond.num >= 1
    /\ hashesPerSecond.den = RateScale
    /\ totalHashCount = 0
    /\ sinceTick = 0

(* ------------------------------ C15 ----------------------------------- *)

\* C15: the hash counter is written by the telemetry goroutine only: no step
\* of a worker, of main or of the ticker changes totalHashCount, and every
\* step that changes it is a step of the telemetry goroutine.
C15_CounterOwnedByTelemetry ==
    /\ [][(MainStep \/ (\E w \in Workers : WorkerStep(w)) \/ TickerFires)
              => totalHashCount' = totalHashCount]_vars
    /\ [][totalHashCount' # totalHashCount => TelemetryStep]_vars

C15_Witness == totalHashCount >= 1 /\ mainPc = "cancel"

(* ------------------------------ C16 ----------------------------------- *)

\* C16: the telemetry goroutine only observes: a worker goes on from a rejected
\* attempt to its next cancellation check, and the round ends as it would
\* otherwise, also when nothing receives from hashCountChan.
C16_RejectedWorkerGoesOn ==
    \A w \in Workers : (pc[w] = "sendCount") ~> (pc[w] = "check")

(* ------------------------------ C17 ----------------------------------- *)

\* a common.Address is 20 bytes
AddressLen == 20

\* the unsigned integer x is what the PadLen bytes of b after offset off spell,
\* most significant byte first
SpellsBigEndian(b, off, x) ==
    /\ Len(x) <= PadLen \div 2
    /\ \A i \in 1..(PadLen \div 2) :
           (b[off + PadLen - (2 * i) + 1] * 256) + b[off + PadLen - (2 * i) + 2] = Limb(x, i)

\* C17: the bytes a worker hashes are exactly 84: the challenge as 32
\* big-endian bytes, left-padded with zeros, then the 20 bytes of the
\* address, then the nonce as 32 big-endian bytes, left-padded with zeros,
\* for challenges and nonces from 0 to 2^256 - 1.
C17_HashInputLayout ==
    \A w \in Workers :
        data[w] # <<>> =>
            /\ Len(data[w]) = PadLen + AddressLen + PadLen
            /\ \A i \in 1..Len(data[w]) : data[w][i] \in 0..255
            /\ SpellsBigEndian(data[w], 0, challenge)
            /\ \A i \in 1..AddressLen : data[w][PadLen + i] = fromAddress[i]
            /\ SpellsBigEndian(data[w], PadLen + AddressLen, nonce[w])

C17_Witness ==
    \E v, w \in Workers :
        /\ data[v] # <<>> /\ nonce[v] = Zero
        /\ data[w] # <<>> /\ nonce[w] = MaxUint256
        /\ challenge = NatOfInt[256]

(* ------------------------------ C18 ----------------------------------- *)

SameInputs(e1, e2) ==
    /\ e1.challenge = e2.challenge
    /\ e1.address = e2.address
    /\ e1.nonce = e2.nonce
    /\ e1.target = e2.target

ParametersFixed == mainPc \notin {"fetch", "target"}

\* C19: the challenge, the address and the target are fixed before the first
\* worker is started, and no step changes any of them afterwards: they are
\* not fetched or derived again, and every evaluation of the round is made
\* against these three values.
C19_ParametersRoundConstant ==
    /\ [](spawned > 0 => ParametersFixed)
    /\ [][ParametersFixed => UNCHANGED <<challenge, fromAddress, target>>]_vars
    /\ [][fromAddress' = fromAddress]_vars
    /\ [](\A e \in evaluated :
             e.challenge = challenge /\ e.address = fromAddress /\ e.target = target)

C19_Witness ==
    /\ spawned = MaxWorkers
    /\ Cardinality(evaluated) >= 2
    /\ mainPc = "completed"

(* ------------------------------ C20 ----------------------------------- *)

\* main waits in its select, v offers a nonce on resultChan and w an error on
\* errorChan
RaceState(v, w) ==
    /\ mainPc = "select"
    /\ pc[v] = "sendResult"
    /\ pc[w] = "sendErr"

\* C20: the select of main has no priority between resultChan and errorChan:
\* whenever one worker offers an accepted nonce and another offers an error,
\* main can take either, the nonce (the round is Found) as well as the error
\* (the round is Failed).
C20_NoPriorityInSelect ==
    \A v, w \in Workers :
        RaceState(v, w) => (ENABLED RecvResult(v)) /\ (ENABLED RecvError(w))

C20_Witness == \E v, w \in Workers : RaceState(v, w)

(* ------------------------------ C21 ----------------------------------- *)

SubmissionFailed == mainPc \in {"fatalSubmit", "fatalConfirm"}

\* C21: an error of contract.Mine or of bind.WaitMined ends the round: the
\* process is then in a failure state, which it never leaves, contract.Mine
\* has been called once and is not called again, and "completed" is reached
\* only from the confirmation, with a nonce received, submitted once, and no
\* error returned.
C21_SubmissionFailureTerminal ==
    /\ [](txErrors # <<>> => SubmissionFailed /\ Len(txErrors) = 1 /\ Len(mineLog) = 1)
    /\ [](mainPc = "fatalSubmit" => txErrors = <<"submit">>)
    /\ [](mainPc = "fatalConfirm" => txErrors = <<"confirm">>)
    /\ [][SubmissionFailed => UNCHANGED vars]_vars
    /\ [][mainPc' = "completed" => mainPc = "waitMined"]_vars
    /\ [](mainPc = "completed" =>
             /\ txErrors = <<>>
             /\ Len(consumed) = 1 /\ consumed[1].kind = "result"
             /\ mineLog = <<consumed[1].nonce>>)

C21_Witness == mainPc = "fatalConfirm" /\ txErrors = <<"confirm">> /\ Len(mineLog) = 1

(* ------------------------------ C22 ----------------------------------- *)

\* worker w looks at ctx.Done() while it is closed
SeesCancel(w) == pc[w] = "check" /\ cancelled /\ pc'[w] # pc[w]

\* C22: a worker that checks ctx.Done() at the top of its loop while the
\* context is cancelled stops in that step: it ends with its wg.Done(), draws
\* no nonce, hashes nothing and sends nothing on resultChan, errorChan or
\* hashCountChan.
C22_CancelSeenStopsAtOnce ==
    /\ [][\A w \in Workers :
             SeesCancel(w) =>
                 /\ pc'[w] = "stopped"
                 /\ wgCount' = wgCount - 1
                 /\ events'[w] = events[w] \o <<"cancelSeen", "done">>
                 /\ UNCHANGED <<draws, nonce, data, evaluated, consumed,
                                totalHashCount, sinceTick>>]_vars
    /\ [](\A w \in Workers : \A i \in 1..Len(events[w]) :
             events[w][i] = "cancelSeen" =>
                 i + 1 = Len(events[w]) /\ events[w][i + 1] = "done" /\ pc[w] = "stopped")

C22_Witness ==
    \E w \in Workers :
        /\ pc[w] = "stopped"
        /\ events[w] = <<"rejected", "count", "cancelRaised", "cancelSeen", "done">>

(* ------------------------------ C23 ----------------------------------- *)

Decisions == {"accepted", "rejected", "randErr"}

Sends == {"result", "error", "count"}

CountIn(seq, S) == Cardinality({i \in 1..Len(seq) : seq[i] \in S})

\* what worker w did after cancel() was called
AfterCancel(w) ==
    IF \E i \in 1..Len(events[w]) : events[w][i] = "cancelRaised"
    THEN LET i == CHOOSE j \in 1..Len(events[w]) : events[w][j] = "cancelRaised"
         IN  SubSeq(events[w], i + 1, Len(events[w]))
    ELSE <<>>

\* 1 when w stands in a channel send
Pending(w) == IF pc[w] \in {"sendResult", "sendErr", "sendCount"} THEN 1 ELSE 0

\* how far worker w is from its end: in rand.Int, in a send, at the check or
\* the return, ended
Rank(p) ==
    CASE p = "draw" -> 3
      [] p \in {"sendResult", "sendErr", "sendCount"} -> 2
      [] p \in {"check", "ret"} -> 1
      [] OTHER -> 0

\* C23: after cancel() each worker completes at most one more draw, the one
\* whose check of ctx.Done() had passed before, and makes at most one more
\* channel send; every step it takes after cancel() brings it nearer its end.
C23_AtMostOneDrawAfterCancel ==
    /\ [](\A w \in Workers :
             /\ CountIn(AfterCancel(w), Decisions) <= 1
             /\ CountIn(AfterCancel(w), Sends) <= 1
             /\ cancelled => CountIn(AfterCancel(w), Sends) + Pending(w) <= 1)
    /\ [][cancelled =>
              \A w \in Workers : pc'[w] # pc[w] => Rank(pc'[w]) < Rank(pc[w])]_vars

C23_Witness ==
    \E w \in Workers :
        events[w] = <<"cancelRaised", "rejected", "count", "cancelSeen", "done">>

(* ------------------------------ C24 ----------------------------------- *)

\* worker w's own steps, without the marks of cancel()
OwnEvents(w) == SelectSeq(events[w], LAMBDA e : e # "cancelRaised")

\* what follows the i-th own step of worker w
OwnAfter(w, i) == SubSeq(OwnEvents(w), i + 1, Len(OwnEvents(w)))

\* C24: a worker whose candidate is accepted offers exactly that nonce on
\* resultChan and ends once it is taken: for the accepted attempt it sends no
\* hash count, after it it draws nothing and sends nothing else.
C24_AcceptedReportsAndStops ==
    /\ [](\A w \in Workers :
             pc[w] = "sendResult" =>
                 /\ BelowBytes(DigestOf(w), target)
                 /\ OwnEvents(w)[Len(OwnEvents(w))] = "accepted")
    /\ [][\A w \in Workers :
             (pc[w] = "sendResult" /\ pc'[w] # pc[w]) =>
                 /\ pc'[w] = "ret"
                 /\ consumed' = Append(consumed,
                        [kind |-> "result", from |-> w, nonce |-> nonce[w]])
                 /\ UNCHANGED <<totalHashCount, sinceTick, draws, nonce>>]_vars
    /\ [](\A w \in Workers : \A i \in 1..Len(OwnEvents(w)) :
             OwnEvents(w)[i] = "accepted" =>
                 OwnAfter(w, i) \in {<<>>, <<"result">>, <<"result", "done">>})

C24_Witness ==
    \E w \in Workers :
        /\ OwnEvents(w) = <<"rejected", "count", "accepted", "result", "done">>
        /\ pc[w] = "stopped"

(* ------------------------------ C25 ----------------------------------- *)

\* C25: every rejected attempt is followed by exactly one message on
\* hashCountChan, of value 1, before the worker does anything else, and
\* nothing else makes a worker send on hashCountChan: the number of hash-count
\* messages a worker has sent is the number of its rejected attempts, less the
\* one whose send is still pending.
C25_OneCountPerRejectedAttempt ==
    /\ [](\A w \in Workers :
             CountIn(events[w], {"count"}) =
                 CountIn(events[w], {"rejected"}) - (IF pc[w] = "sendCount" THEN 1 ELSE 0))
    /\ [](\A w \in Workers : \A i \in 1..Len(OwnEvents(w)) :
             /\ OwnEvents(w)[i] = "rejected" =>
                    IF i = Len(OwnEvents(w)) THEN pc[w] = "sendCount"
                    ELSE OwnEvents(w)[i + 1] = "count"
             /\ OwnEvents(w)[i] = "count" =>
                    i > 1 /\ OwnEvents(w)[i - 1] = "rejected")
    /\ [][\A w \in Workers :
             (pc[w] = "sendCount" /\ pc'[w] # pc[w]) =>
                 /\ pc'[w] = "check"
                 /\ events'[w] = Append(events[w], "count")
                 /\ totalHashCount' = totalHashCount + 1]_vars

C25_Witness ==
    \E w \in Workers :
        /\ OwnEvents(w) = <<"rejected", "count", "rejected">>
        /\ pc[w] = "sendCount"

(* ------------------------------ C26 ----------------------------------- *)

\* the worker goroutine exists and has not ended
Running(w) == pc[w] \in {"check", "draw", "sendResult", "sendErr", "sendCount", "ret"}

Stopped(w) == pc[w] = "stopped"

\* the last k own steps of worker w
LastOwn(w, k) ==
    SubSeq(OwnEvents(w), Len(OwnEvents(w)) - k + 1, Len(OwnEvents(w)))

\* C26: a started worker is Running or Stopped, and Stopped is final: it ends
\* only after it saw the cancellation at the top of its loop, after its
\* randomness error was taken or after its accepted nonce was taken; it sends
\* at most one result or error in its life, never both, an error only after
\* rand.Int failed; it calls wg.Done() exactly once, as its last step, and
\* does nothing afterwards.
C26_WorkerLifecycle ==
    /\ [](\A w \in Workers : pc[w] # "idle" => (Running(w) \/ Stopped(w)))
    /\ [](\A w \in Workers :
             /\ CountIn(events[w], {"result", "error"}) <= 1
             /\ CountIn(events[w], {"done"}) = (IF Stopped(w) THEN 1 ELSE 0)
             /\ Stopped(w) =>
                    LastOwn(w, 2) \in {<<"cancelSeen", "done">>, <<"result", "done">>,
                                       <<"error", "done">>}
             /\ \A i \in 1..Len(OwnEvents(w)) :
                    /\ OwnEvents(w)[i] = "error" => i > 1 /\ OwnEvents(w)[i - 1] = "randErr"
                    /\ OwnEvents(w)[i] = "result" => i > 1 /\ OwnEvents(w)[i - 1] = "accepted"
                    /\ OwnEvents(w)[i] \in {"result", "error"} =>
                           OwnAfter(w, i) \in {<<>>, <<"done">>})
    /\ [][\A w \in Workers :
             Stopped(w) =>
                 /\ pc'[w] = "stopped"
                 /\ OwnEvents(w)' = OwnEvents(w)
                 /\ nonce'[w] = nonce[w] /\ data'[w] = data[w]]_vars
    /\ [][\A w \in Workers : Len(events'[w]) > Len(events[w]) /\
             events'[w][Len(events'[w])] = "done" => wgCount' = wgCount - 1]_vars

C26_Witness ==
    \E u, v \in Workers :
        /\ Stopped(u) /\ LastOwn(u, 2) = <<"result", "done">>
        /\ Stopped(v) /\ LastOwn(v, 2) = <<"cancelSeen", "done">>
        /\ mainPc = "mine"

(* ------------------------------ C27 ----------------------------------- *)

\* the number of iterations of the loop of line 166
Wanted == IF workerCount > 0 THEN workerCount ELSE 0

SpawnLoopDone ==
    mainPc \notin {"fetch", "fatalFetch", "target", "panic", "telemetry", "spawn"}

\* C27: main starts exactly workerCount workers, all given the same context
\* and the same three channels; the WaitGroup counter is always the number of
\* started workers that have not ended, and is never negative.
C27_WaitGroupCountsLiveWorkers ==
    /\ spawned \in 0..Wanted
    /\ SpawnLoopDone => spawned = Wanted
    /\ \A w \in Workers : pc[w] # "idle" <=> w <= spawned
    /\ wgCount = Cardinality({w \in Workers : w <= spawned /\ pc[w] # "stopped"})
    /\ wgCount >= 0

C27_Witness ==
    /\ spawned = MaxWorkers
    /\ wgCount = MaxWorkers - 1
    /\ \E w \in Workers : pc[w] = "stopped"

(* ------------------------------ C28 ----------------------------------- *)

AllEnded == \A w \in Workers : w <= spawned => pc[w] = "stopped"

\* main's steps from the select to the submission, and to the failure report
FoundOrder ==
    {<<"select", "tickerStop">>, <<"tickerStop", "cancel">>, <<"cancel", "wait">>,
     <<"wait", "mine">>}

FailedOrder ==
    {<<"select", "cancelE">>, <<"cancelE", "waitE">>, <<"waitE", "fatalSearch">>}

\* C28: on the Found path main receives the nonce, calls cancel(), waits for
\* all workers and only then calls contract.Mine: at that call ctx is
\* cancelled and every started worker has ended.  On the Failed path the
\* failure is reported only after cancel() and after every worker has ended.
C28_SubmitAfterCancelAndWait ==
    /\ [][(mainPc' # mainPc /\ mainPc' \in {"tickerStop", "cancel", "wait", "mine"})
              => <<mainPc, mainPc'>> \in FoundOrder]_vars
    /\ [][(mainPc' # mainPc /\ mainPc' \in {"cancelE", "waitE", "fatalSearch"})
              => <<mainPc, mainPc'>> \in FailedOrder]_vars
    /\ [](mainPc \in {"tickerStop", "cancel"} =>
             ~cancelled /\ Len(consumed) = 1 /\ consumed[1].kind = "result")
    /\ [](mainPc = "wait" => cancelled)
    /\ [][mineLog' # mineLog =>
              cancelled /\ AllEnded /\ wgCount = 0 /\ consumed[1].kind = "result"]_vars
    /\ [](mainPc = "fatalSearch" =>
             cancelled /\ AllEnded /\ wgCount = 0 /\ consumed[1].kind = "error")

C28_Witness ==
    /\ mainPc = "waitMined"
    /\ spawned = MaxWorkers
    /\ AllEnded
    /\ \E w \in Workers : LastOwn(w, 2) = <<"cancelSeen", "done">>

(* ------------------------------ C29 ----------------------------------- *)

\* C29: ctx is not cancelled when the round starts; once cancelled it stays
\* cancelled; it is cancelled only after main has received an outcome; and
\* the second cancel(), the deferred one at main's return, finds it cancelled
\* and changes nothing but main's position.
C29_CancelMonotoneIdempotent ==
    /\ [](mainPc \in {"fetch", "target", "telemetry", "spawn", "select"} => ~cancelled)
    /\ [](cancelled => PastSelect)
    /\ [][cancelled => cancelled']_vars
    /\ [][(~cancelled /\ cancelled') => mainPc \in {"cancel", "cancelE"}]_vars
    /\ [][(mainPc # "completed" /\ mainPc' = "completed") =>
              /\ cancelled /\ cancelled'
              /\ UNCHANGED <<workerCount, fromAddress, keccak, challenge, difficulty,
                             target, tickerState, tickBuf, totalHashCount, wgCount,
                             spawned, pc, nonce, mnonce, consumed, mineLog, draws,
                             data, hashesPerSecond, evaluated, sinceTick, events,
                             txErrors>>]_vars

C29_Witness == mainPc = "completed" /\ cancelled /\ spawned = MaxWorkers

(* ------------------------------ C30 ----------------------------------- *)

\* C30: on the Found path main stops the ticker before it calls cancel(), and
\* once the ticker is stopped the telemetry goroutine takes no further tick,
\* that is, it prints no further hash rate.
C30_NoMetricAfterTickerStop ==
    /\ [](cancelled /\ consumed[1].kind = "result" => tickerState = "stopped")
    /\ [][tickerState = "stopped" => ~TickTaken]_vars

(* ------------------------------ C31 ----------------------------------- *)

\* C31: the telemetry goroutine goes on receiving from hashCountChan after
\* main has received the outcome, stopped the ticker and called cancel(): a
\* worker that stands in hashCountChan <- 1 can always complete the send, and
\* one that stands there when ctx is cancelled eventually completes it, sees
\* the cancellation at its next check and ends.
C31_BlockedCounterIsReleased ==
    /\ [](\A w \in Workers : pc[w] = "sendCount" => ENABLED AggRecv(w))
    /\ \A w \in Workers : (cancelled /\ pc[w] = "sendCount") ~> (pc[w] = "stopped")

C31_Witness ==
    \E w \in Workers :
        /\ pc[w] = "stopped"
        /\ events[w] = <<"rejected", "cancelRaised", "count", "cancelSeen", "done">>
        /\ tickerState = "stopped"

(* ------------------------------ C32 ----------------------------------- *)

RECURSIVE SumTo(_, _)
\* f[1] + ... + f[n]
SumTo(f, n) == IF n = 0 THEN 0 ELSE f[n] + SumTo(f, n - 1)

\* the hash-count messages the telemetry goroutine has received so far
Received == SumTo([w \in Workers |-> CountIn(events[w], {"count"})], MaxWorkers)

\* the rejected attempts whose hashCountChan <- 1 has completed
RejectedSent ==
    SumTo([w \in Workers |-> CountIn(events[w], {"rejected"})
                              - (IF pc[w] = "sendCount" THEN 1 ELSE 0)],
          MaxWorkers)

\* C32: hash counts are conserved: the counts whose rate was printed so far
\* plus totalHashCount equal the number of messages received from
\* hashCountChan, which is the number of rejected attempts whose send has
\* completed; totalHashCount is never negative.
C32_HashCountsConserved ==
    /\ emitted + totalHashCount = Received
    /\ Received = RejectedSent
    /\ totalHashCount >= 0
    /\ emitted >= 0

C32_Witness ==
    /\ emitted > 0
    /\ totalHashCount > 0

(* ------------------------------ C33 ----------------------------------- *)

\* the digest of (challenge, fromAddress, n) as the unsigned integer of line 64
RoundDigest(n) == HashBig[keccak[HashInput(challenge, fromAddress, n)]]

\* C33: main passes the nonce to contract.Mine without hashing it again, and
\* still every nonce passed there is one that a worker of this run drew and
\* for which the digest of (challenge, fromAddress, nonce) is strictly below
\* the target of this run.
C33_SubmittedNonceIsValid ==
    \A i \in 1..Len(mineLog) :
        /\ \E w \in Workers :
              /\ w <= spawned
              /\ nonce[w] = mineLog[i]
              /\ data[w] = HashInput(challenge, fromAddress, mineLog[i])
              /\ CountIn(events[w], {"accepted"}) = 1
        /\ \E e \in evaluated :
              /\ e.nonce = mineLog[i]
              /\ e.challenge = challenge /\ e.address = fromAddress
              /\ e.target = target
              /\ e.accepted
        /\ BelowBytes(RoundDigest(mineLog[i]), target)

C33_Witness ==
    /\ Len(mineLog) = 1
    /\ PlusOne[RoundDigest(mineLog[1])] = target
    /\ \E w \in Workers : CountIn(events[w], {"rejected"}) > 0

(* ------------------------------ C34 ----------------------------------- *)

\* ctx is not cancelled, no worker has found a nonce below the target and no
\* rand.Int has failed
SearchOpen ==
    /\ ~cancelled
    /\ \A w \in Workers : CountIn(events[w], {"accepted", "randErr"}) = 0

\* worker w is in its loop and its next step can be taken (draws < MaxDraws is
\* the bound of the model on the number of iterations, not a guard of the code)
Attempting(w) ==
    /\ pc[w] \in {"check", "draw", "sendCount"}
    /\ pc[w] = "check" /\ draws < MaxDraws => ENABLED WorkerCheck(w)
    /\ pc[w] = "draw" => ENABLED WorkerDraw(w)
    /\ pc[w] = "sendCount" => ENABLED AggRecv(w)

\* C34: the search has no stop of its own: as long as ctx is not cancelled, no
\* worker has found a nonce and no rand.Int has failed, every started worker
\* is in its loop and can go on, and main, once past the spawn loop, stands in
\* the select on resultChan / errorChan; ctx is cancelled only after main has
\* received from one of the two.
C34_NoStopOfItsOwn ==
    /\ SearchOpen =>
          /\ \A w \in Workers : w <= spawned => Attempting(w)
          /\ SpawnLoopDone => mainPc = "select" /\ consumed = <<>>
    /\ cancelled => consumed # <<>>

C34_Witness ==
    /\ SearchOpen
    /\ mainPc = "select"
    /\ spawned = MaxWorkers
    /\ \E w \in Workers : pc[w] = "draw" /\ events[w] = <<"rejected", "count">>

====
